---- MODULE Spec2Model ----
(***************************************************************************)
(* Model of the TwBot task scheduler: the TaskManager singleton of         *)
(* src/app/taskManager.js, the executors and polling loop that the host    *)
(* (src/unnamed/part_003) builds around it, the run gate of                *)
(* src/app/discordBot.js and the pause and resume commands that close and  *)
(* open it.  Times are epoch milliseconds; every step of the               *)
(* model is one turn of the JavaScript event loop (a synchronous call, or  *)
(* the continuation that runs when an awaited timer or executor settles).  *)
(***************************************************************************)
EXTENDS Integers, Sequences, FiniteSets, TLC

VARIABLES
  tasks,              \* this.tasks: id -> [enabled, interval, lastRun, nextRun]
  taskFunctions,      \* this.taskFunctions: id -> registered executor
  isRunning,          \* this.isRunning (start / stop)
  currentlyExecuting, \* this.currentlyExecuting
  config,             \* this.config.features, the in-memory config document
  file,               \* the features section of config.json on disk
  now,                \* Date.now()
  pass,               \* caller -> the executeDueTasks invocation it awaits
  botRunning,         \* discordBot.js isRunning, the run gate
  phase,              \* "constructed" until initialize() has run
  calls,              \* how many calls the host's callers have made so far
  lastOp,             \* the last call made and what it returned
  pauseEndTime,       \* global.pauseEndTime: when the current pause ends, or null
  timers,             \* the auto-resume timers still pending, by the time each fires
  writable,           \* whether fs.writeFileSync on config.json succeeds
  restarts            \* the pending timers of restartTask: [id, at]

vars == <<tasks, taskFunctions, isRunning, currentlyExecuting, config, file,
          now, pass, botRunning, phase, calls, lastOp, pauseEndTime, timers,
          writable, restarts>>

----------------------------------------------------------------------------
(* Constants of the program and bounds of the model *)

null == -1

MsPerMinute == 60000

returnTimeMinutes == 30

cooldownMinutes == 150

MaxTicks == 1

MaxMinutes == 1

MaxCalls == 2

TaskOrder == <<"farm", "balance", "train">>

TaskIds == {TaskOrder[i] : i \in 1..Len(TaskOrder)}

\* An id that is none of the three tasks (src/app/commands/balance.js:155 uses it).
UnknownId == "balancer"

Ids == TaskIds \cup {UnknownId}

\* The minute arguments callers pass: zero and a positive number.
Minutes == {0, MaxMinutes}

\* The minute arguments of the pause command: a shorter and a longer pause.
PauseMinutes == {MaxMinutes, MaxMinutes + 1}

\* A timestamp a previous run of the process left in config.json.
StaleTime == MsPerMinute

\* Date.now() when the process starts.
StartTime == 2 * MsPerMinute

MaxNow == StartTime + MaxTicks * MsPerMinute

\* The delay of restartTask's timer, in milliseconds.
RestartDelay == 100

FarmFn == "farmFn"

BalanceFn == "balanceFn"

TrainFn == "trainFn"

NoFn == "undefined"

\* Executors a caller of registerTask may pass besides the host's: one that
\* resolves without rescheduling its task, one that rejects, and the farm
\* executor failing after its setTaskNextRun call.
QuietFn == "quietFn"

ThrowFn == "throwFn"

FarmThrowFn == "farmThrowFn"

Executors == {QuietFn, ThrowFn, FarmThrowFn}

\* An executor whose promise never settles.
HangFn == "hangFn"

\* The executor's promise rejects.
Throws(fn) == fn \in {ThrowFn, FarmThrowFn}

\* The executor's promise stays pending for ever.
Hangs(fn) == fn = HangFn

Callers == {"loop", "ext"}

\* The id recorded in lastOp for a call that takes no task id.
NoId == "-"

\* JavaScript truthiness of a timestamp-or-null value.
Truthy(x) == x # null /\ x # 0

IdlePass == [pc |-> "idle", due |-> <<>>, idx |-> 0, fn |-> NoFn, started |-> null]

\* A call and its result; fn is the executor a registerTask call was given.
Op(op, id, enabled, minutes, ret, saved) ==
  [op |-> op, id |-> id, enabled |-> enabled, minutes |-> minutes,
   ret |-> ret, saved |-> saved, fn |-> NoFn]

----------------------------------------------------------------------------
(* The TaskManager's methods, as functions of the object's fields.         *)
(* m = [tasks, fns, config, file, saved, writable]; saved records a       *)
(* saveConfig call.                                                        *)

Mem == [tasks |-> tasks, fns |-> taskFunctions, config |-> config,
        file |-> file, saved |-> FALSE, writable |-> writable]

\* Mutant: the balance interval is stored in seconds.
saveConfig_Seconds(m) ==
  LET doc == [t \in TaskIds |->
                [enabled  |-> m.tasks[t].enabled,
                 interval |-> IF t = "balance"
                              THEN m.tasks[t].interval \div 1000
                              ELSE m.config[t].interval,
                 lastRun  |-> m.tasks[t].lastRun,
                 nextRun  |-> m.tasks[t].nextRun]]
  IN [m EXCEPT !.config = doc,
               !.file = IF m.writable THEN doc ELSE m.file,
               !.saved = TRUE]

\* The config object is updated first; a write that throws is caught and
\* logged (lines 75-77) and leaves the file as it was.
saveConfig(m) ==
  LET doc == [t \in TaskIds |->
                [enabled  |-> m.tasks[t].enabled,
                 interval |-> IF t = "balance"
                              THEN m.tasks[t].interval \div MsPerMinute
                              ELSE m.config[t].interval,
                 lastRun  |-> m.tasks[t].lastRun,
                 nextRun  |-> m.tasks[t].nextRun]]
  IN [m EXCEPT !.config = doc,
               !.file = IF m.writable THEN doc ELSE m.file,
               !.saved = TRUE]

\* Mutant: an executor already registered for the id is kept.
registerTask_KeepFirst(m, taskId, executeFn, intervalMinutes) ==
  IF taskId \notin TaskIds
  THEN [mem |-> m, ret |-> FALSE]
  ELSE LET m1 == IF m.fns[taskId] = NoFn
                 THEN [m EXCEPT !.fns[taskId] = executeFn]
                 ELSE m
           m2 == IF intervalMinutes # null /\ taskId = "balance"
                 THEN [m1 EXCEPT !.tasks[taskId].interval =
                                    intervalMinutes * MsPerMinute]
                 ELSE m1
       IN [mem |-> m2, ret |-> TRUE]

registerTask(m, taskId, executeFn, intervalMinutes) ==
  IF taskId \notin TaskIds
  THEN [mem |-> m, ret |-> FALSE]
  ELSE LET m1 == [m EXCEPT !.fns[taskId] = executeFn]
           m2 == IF intervalMinutes # null /\ taskId = "balance"
                 THEN [m1 EXCEPT !.tasks[taskId].interval =
                                    intervalMinutes * MsPerMinute]
                 ELSE m1
       IN [mem |-> m2, ret |-> TRUE]

\* Mutant: enabling always reschedules the task to now.
setTaskEnabled_AlwaysNow(m, taskId, enabled, t) ==
  IF taskId \notin TaskIds
  THEN [mem |-> m, ret |-> FALSE]
  ELSE LET m1 == [m EXCEPT !.tasks[taskId].enabled = enabled]
           m2 == [m1 EXCEPT !.tasks[taskId].nextRun = IF enabled THEN t ELSE null]
       IN [mem |-> saveConfig(m2), ret |-> TRUE]

\* Mutant: disabling a task also forgets when it last ran.
setTaskEnabled_ClearsLastRun(m, taskId, enabled, t) ==
  IF taskId \notin TaskIds
  THEN [mem |-> m, ret |-> FALSE]
  ELSE LET m1 == [m EXCEPT !.tasks[taskId].enabled = enabled]
           m2 == IF enabled /\ ~Truthy(m1.tasks[taskId].nextRun)
                 THEN [m1 EXCEPT !.tasks[taskId].nextRun = t]
                 ELSE m1
           m3 == IF ~enabled
                 THEN [m2 EXCEPT !.tasks[taskId].nextRun = null,
                                 !.tasks[taskId].lastRun = null]
                 ELSE m2
       IN [mem |-> saveConfig(m3), ret |-> TRUE]

setTaskEnabled(m, taskId, enabled, t) ==
  IF taskId \notin TaskIds
  THEN [mem |-> m, ret |-> FALSE]
  ELSE LET m1 == [m EXCEPT !.tasks[taskId].enabled = enabled]
           m2 == IF enabled /\ ~Truthy(m1.tasks[taskId].nextRun)
                 THEN [m1 EXCEPT !.tasks[taskId].nextRun = t]
                 ELSE m1
           m3 == IF ~enabled
                 THEN [m2 EXCEPT !.tasks[taskId].nextRun = null]
                 ELSE m2
       IN [mem |-> saveConfig(m3), ret |-> TRUE]

\* Mutant: the enabled check is missing.
setTaskNextRun_NoEnabledCheck(m, taskId, minutesUntilNextRun, t) ==
  IF taskId \notin TaskIds
  THEN [mem |-> m, ret |-> FALSE]
  ELSE LET m1 == [m EXCEPT !.tasks[taskId].nextRun =
                              t + minutesUntilNextRun * MsPerMinute]
       IN [mem |-> saveConfig(m1), ret |-> TRUE]

setTaskNextRun(m, taskId, minutesUntilNextRun, t) ==
  IF taskId \notin TaskIds \/ ~m.tasks[taskId].enabled
  THEN [mem |-> m, ret |-> FALSE]
  ELSE LET nextRunTimeMs == minutesUntilNextRun * MsPerMinute
           m1 == [m EXCEPT !.tasks[taskId].nextRun = t + nextRunTimeMs]
           m2 == [m1 EXCEPT !.config[taskId].nextRun = m1.tasks[taskId].nextRun]
       IN [mem |-> saveConfig(m2), ret |-> TRUE]

\* Mutant: the next run is recomputed whether or not the task is enabled.
setBalanceInterval_IgnoreEnabled(m, intervalMinutes) ==
  LET m1 == [m EXCEPT !.tasks["balance"].interval = intervalMinutes * MsPerMinute]
      m2 == IF Truthy(m1.tasks["balance"].lastRun)
            THEN [m1 EXCEPT !.tasks["balance"].nextRun =
                               m1.tasks["balance"].lastRun
                               + m1.tasks["balance"].interval]
            ELSE m1
  IN [mem |-> saveConfig(m2), ret |-> TRUE]

setBalanceInterval(m, intervalMinutes) ==
  LET m1 == [m EXCEPT !.tasks["balance"].interval = intervalMinutes * MsPerMinute]
      m2 == IF m1.tasks["balance"].enabled /\ Truthy(m1.tasks["balance"].lastRun)
            THEN [m1 EXCEPT !.tasks["balance"].nextRun =
                               m1.tasks["balance"].lastRun
                               + m1.tasks["balance"].interval]
            ELSE m1
  IN [mem |-> saveConfig(m2), ret |-> TRUE]

\* Mutant: the old id of the balance task is accepted as well.
setTaskInterval_OldId(m, taskId, intervalMinutes) ==
  IF taskId \in {"balance", "balancer"}
  THEN setBalanceInterval(m, intervalMinutes)
  ELSE [mem |-> m, ret |-> FALSE]

setTaskInterval(m, taskId, intervalMinutes) ==
  IF taskId = "balance"
  THEN setBalanceInterval(m, intervalMinutes)
  ELSE [mem |-> m, ret |-> FALSE]

\* Mutant: a task whose next run is exactly now is not yet due.
IsDue_Strict(ts, taskId, t) ==
  ts[taskId].enabled /\ Truthy(ts[taskId].nextRun) /\ ts[taskId].nextRun < t

\* Line 241: the test a task must pass to be listed.
IsDue(ts, taskId, t) ==
  ts[taskId].enabled /\ Truthy(ts[taskId].nextRun) /\ ts[taskId].nextRun <= t

\* Lines 237-246: the loop over Object.entries(this.tasks).
dueNow(ts, t) == SelectSeq(TaskOrder, LAMBDA taskId : IsDue(ts, taskId, t))

\* Mutant: a pass in progress does not empty the list.
getDueTasksOf_NoMutex(ts, running, executing, t) ==
  IF ~running THEN <<>> ELSE dueNow(ts, t)

\* Mutant: a stopped scheduler does not empty the list.
getDueTasksOf_NoStop(ts, running, executing, t) ==
  IF executing THEN <<>> ELSE dueNow(ts, t)

getDueTasksOf(ts, running, executing, t) ==
  IF ~running \/ executing
  THEN <<>>
  ELSE dueNow(ts, t)

getDueTasks == getDueTasksOf(tasks, isRunning, currentlyExecuting, now)

\* helper.js formatTimeRemaining: "MM:SS", kept as the pair <<MM, SS>>.
formatTimeRemaining(milliseconds) ==
  IF milliseconds <= 0
  THEN <<0, 0>>
  ELSE LET seconds == milliseconds \div 1000
           minutes == seconds \div 60
           remainingSeconds == seconds % 60
       IN <<minutes, remainingSeconds>>

Max(a, b) == IF a >= b THEN a ELSE b

\* null (not found) is the record NotFound.
NotFound == [found |-> FALSE]

getTaskStatusOf(ts, taskId, t) ==
  IF taskId \notin TaskIds
  THEN NotFound
  ELSE [found    |-> TRUE,
        enabled  |-> ts[taskId].enabled,
        lastRun  |-> ts[taskId].lastRun,
        nextRun  |-> ts[taskId].nextRun,
        interval |-> IF taskId = "balance"
                     THEN ts[taskId].interval \div MsPerMinute
                     ELSE null,
        timeUntilNextRun |->
          IF Truthy(ts[taskId].nextRun)
          THEN formatTimeRemaining(Max(0, ts[taskId].nextRun - t))
          ELSE <<null, null>>]

getTaskStatus(taskId) == getTaskStatusOf(tasks, taskId, now)

----------------------------------------------------------------------------
(* The host: executors, registration and initialisation (part_003) *)

\* What an executor does between its timer firing and its promise resolving.
executorBody(m, fn, t) ==
  CASE fn = FarmFn      -> setTaskNextRun(m, "farm", returnTimeMinutes, t).mem
    [] fn = TrainFn     -> setTaskNextRun(m, "train", cooldownMinutes, t).mem
    [] fn = BalanceFn   -> m
    [] fn = FarmThrowFn -> setTaskNextRun(m, "farm", returnTimeMinutes, t).mem
    [] OTHER            -> m

\* The executor registerTasks registers for a task.
hostFn(taskId) ==
  CASE taskId = "farm"    -> FarmFn
    [] taskId = "balance" -> BalanceFn
    [] taskId = "train"   -> TrainFn
    [] OTHER              -> BalanceFn

registerTasks(m) ==
  LET m1 == registerTask(m, "farm", FarmFn, null).mem
      m2 == registerTask(m1, "balance", BalanceFn, m1.config["balance"].interval).mem
      m3 == registerTask(m2, "train", TrainFn, null).mem
  IN m3

\* Object.entries(config.features).forEach(setTaskEnabled(taskId, feature.enabled))
RECURSIVE enableFromConfig(_, _, _)
enableFromConfig(m, i, t) ==
  IF i > Len(TaskOrder)
  THEN m
  ELSE enableFromConfig(
         setTaskEnabled(m, TaskOrder[i], m.config[TaskOrder[i]].enabled, t).mem,
         i + 1, t)

----------------------------------------------------------------------------
(* The run gate: the pause and resume commands and the two command entry   *)
(* points.  g = [running, pauseEndTime, timers].                           *)

Gate == [running |-> botRunning, pauseEndTime |-> pauseEndTime, timers |-> timers]

\* The sequence s without its i-th element.
RemoveAt(s, i) == SubSeq(s, 1, i - 1) \o SubSeq(s, i + 1, Len(s))

\* pause.js handlePause (and the older execute): close the gate, store the end
\* time, set a timer that reopens the gate.
handlePause(g, pauseMinutes, t) ==
  LET pauseMs == pauseMinutes * 60 * 1000
      endTime == t + pauseMs
  IN [running |-> FALSE, pauseEndTime |-> endTime,
      timers |-> Append(g.timers, t + pauseMs)]

\* resume.js handleResume: nothing when already running.
handleResume(g) ==
  IF g.running
  THEN g
  ELSE [g EXCEPT !.running = TRUE, !.pauseEndTime = null]

\* The callback of the i-th pending timer (pause.js lines 155-157).
autoResume(g, i) ==
  [running |-> TRUE, pauseEndTime |-> null, timers |-> RemoveAt(g.timers, i)]

Entries == {"discord", "terminal"}

Subcommands == {"on", "off", "schedule", "interval"}

\* discordBot.js handleMessage line 96: while paused only resume and status
\* are let through; part_004 handleCommand has no such test.
Blocked(entry, running, commandName) ==
  entry = "discord" /\ ~running /\ commandName \notin {"resume", "status"}

\* The minutes argument a subcommand takes: on and off take none.
ArgsOf(sub) == IF sub \in {"schedule", "interval"} THEN Minutes ELSE {null}

\* The task manager call a task command's handler makes (helper.js
\* createStandardHandlers).
commandEffect(m, taskId, sub, minutes, t) ==
  CASE sub = "on"       -> setTaskEnabled(m, taskId, TRUE, t)
    [] sub = "off"      -> setTaskEnabled(m, taskId, FALSE, t)
    [] sub = "schedule" -> setTaskNextRun(m, taskId, minutes, t)
    [] sub = "interval" -> setTaskInterval(m, taskId, minutes)

\* The words a pause or resume command may carry after its name.
Tokens == {"1", "default", "DEFAULT", "go"}

ArgLists == {<<>>} \cup {<<tok>> : tok \in Tokens}

\* String.prototype.toLowerCase on the tokens.
toLowerCase(tok) == IF tok = "DEFAULT" THEN "default" ELSE tok

\* isNaN and parseInt on the tokens.
isNaN(tok) == tok # "1"

parseInt(tok) == CASE tok = "1" -> 1

\* config.discord.subcommandAliases, read from config.json: no alias, or the
\* word "go" standing for "default".
NoAlias == "-"

AliasTables ==
  {[tok \in Tokens |-> NoAlias],
   [tok \in Tokens |-> IF tok = "go" THEN "default" ELSE NoAlias]}

\* The handlers object that the execute of pause.js and of resume.js builds.
Handlers == {"default", "showHelp"}

DefaultPauseMinutes == 10

\* helper.js processCommand: the name of the handler that is called.
processCommand(args, handlers, subcommandAliases) ==
  IF Len(args) = 0
  THEN "showHelp"
  ELSE LET subcommand == toLowerCase(args[1])
           resolvedSubcommand == IF subcommandAliases[subcommand] # NoAlias
                                 THEN subcommandAliases[subcommand]
                                 ELSE subcommand
       IN IF resolvedSubcommand \in handlers
          THEN resolvedSubcommand
          ELSE "showHelp"

\* pause.js handlePause from its arguments: a first argument that is not a
\* number is turned away; without one the pause lasts ten minutes.
handlePauseArgs(g, args, t) ==
  IF Len(args) > 0 /\ isNaN(args[1])
  THEN g
  ELSE handlePause(g, IF Len(args) > 0 /\ ~isNaN(args[1])
                      THEN parseInt(args[1])
                      ELSE DefaultPauseMinutes, t)

\* The handler reads setRunning from message.client.botUtils: the mock message
\* of the terminal has no client, so the handler throws there before it acts.
HandlerActs(entry, commandName, handler, running) ==
  /\ handler = "default"
  /\ entry = "discord"
  /\ ~Blocked(entry, running, commandName)

----------------------------------------------------------------------------
(* executeDueTasks, cut at its awaits *)

\* Mutant: the next run is recomputed from the interval for every task.
recordSuccess_AllTasks(m, taskId, t) ==
  LET m1 == [m EXCEPT !.tasks[taskId].lastRun = t]
      m2 == [m1 EXCEPT !.tasks[taskId].nextRun = t + m1.tasks[taskId].interval]
  IN saveConfig(m2)

\* Mutant: the outcome is recorded in memory and saved only when the pass ends.
recordSuccess_NoSave(m, taskId, t) ==
  LET m1 == [m EXCEPT !.tasks[taskId].lastRun = t]
      m2 == [m1 EXCEPT !.config[taskId].lastRun = m1.tasks[taskId].lastRun]
      m3 == IF taskId = "balance" /\ m2.tasks[taskId].interval > 0
            THEN LET m4 == [m2 EXCEPT !.tasks[taskId].nextRun =
                                         t + m2.tasks[taskId].interval]
                 IN [m4 EXCEPT !.config[taskId].nextRun = m4.tasks[taskId].nextRun]
            ELSE m2
  IN m3

\* Mutant: balance's next run is recomputed whatever its interval.
recordSuccess_NoIntervalGuard(m, taskId, t) ==
  LET m1 == [m EXCEPT !.tasks[taskId].lastRun = t]
      m2 == [m1 EXCEPT !.config[taskId].lastRun = m1.tasks[taskId].lastRun]
      m3 == IF taskId = "balance"
            THEN LET m4 == [m2 EXCEPT !.tasks[taskId].nextRun =
                                         t + m2.tasks[taskId].interval]
                 IN [m4 EXCEPT !.config[taskId].nextRun = m4.tasks[taskId].nextRun]
            ELSE m2
  IN saveConfig(m3)

\* Mutant: the pass records lastRun and never writes nextRun.
recordSuccess_KeepsNextRun(m, taskId, t) ==
  LET m1 == [m EXCEPT !.tasks[taskId].lastRun = t]
      m2 == [m1 EXCEPT !.config[taskId].lastRun = m1.tasks[taskId].lastRun]
  IN saveConfig(m2)

\* Lines 274-295: what the pass records once a task's executor has resolved.
recordSuccess(m, taskId, t) ==
  LET m1 == [m EXCEPT !.tasks[taskId].lastRun = t]
      m2 == [m1 EXCEPT !.config[taskId].lastRun = m1.tasks[taskId].lastRun]
      m3 == IF taskId = "balance" /\ m2.tasks[taskId].interval > 0
            THEN LET m4 == [m2 EXCEPT !.tasks[taskId].nextRun =
                                         t + m2.tasks[taskId].interval]
                 IN [m4 EXCEPT !.config[taskId].nextRun = m4.tasks[taskId].nextRun]
            ELSE m2
  IN saveConfig(m3)

\* Mutant: a due task without an executor ends the loop.
nextWithFn_StopsAtMissing(fns, due, i) ==
  IF i > Len(due) THEN i
  ELSE IF fns[due[i]] # NoFn THEN i
  ELSE Len(due) + 1

\* Mutant: the loop passes over the task at the position it is at.
nextWithFn_SkipsOne(fns, due, i) ==
  LET later == {j \in (i + 1)..Len(due) : fns[due[j]] # NoFn}
  IN IF later = {} THEN Max(i, Len(due) + 1)
     ELSE CHOOSE k \in later : \A l \in later : k <= l

\* Mutant: the loop jumps to the last due task.
nextWithFn_Last(fns, due, i) ==
  IF i > Len(due) THEN i ELSE Len(due)

\* The for loop from position i: the first due task with a registered executor,
\* or Len(due) + 1 when the loop is over.
RECURSIVE nextWithFn(_, _, _)
nextWithFn(fns, due, i) ==
  IF i > Len(due) THEN i
  ELSE IF fns[due[i]] # NoFn THEN i
  ELSE nextWithFn(fns, due, i + 1)

\* Mutant: tasks that have become due since the pass started join its list.
loopFrom_Recapture(fns, due, i, t) ==
  LET captured == {due[k] : k \in 1..Len(due)}
      all == due \o SelectSeq(dueNow(tasks, t), LAMBDA x : x \notin captured)
      j == nextWithFn(fns, all, i)
  IN IF j > Len(all)
     THEN [pc |-> "logout", due |-> all, idx |-> j, fn |-> NoFn, started |-> null]
     ELSE [pc |-> "exec", due |-> all, idx |-> j, fn |-> fns[all[j]], started |-> t]

\* Mutant: the loop passes over a due task that has been disabled meanwhile.
loopFrom_SkipDisabled(fns, due, i, t) ==
  LET open == {j \in i..Len(due) : fns[due[j]] # NoFn /\ tasks[due[j]].enabled}
      j == IF open = {} THEN Len(due) + 1
           ELSE CHOOSE k \in open : \A l \in open : k <= l
  IN IF j > Len(due)
     THEN [pc |-> "logout", due |-> due, idx |-> j, fn |-> NoFn, started |-> null]
     ELSE [pc |-> "exec", due |-> due, idx |-> j, fn |-> fns[due[j]], started |-> t]

\* Mutant: when the loop is over the pass ends without the session close.
loopFrom_NoLogout(fns, due, i, t) ==
  LET j == nextWithFn(fns, due, i)
  IN IF j > Len(due)
     THEN [pc |-> "idle", due |-> <<>>, idx |-> 0, fn |-> NoFn, started |-> null]
     ELSE [pc |-> "exec", due |-> due, idx |-> j, fn |-> fns[due[j]], started |-> t]

\* The pass after the loop has moved on to position i at time t: awaiting the
\* executor it has just called, or awaiting the logout timer.
loopFrom(fns, due, i, t) ==
  LET j == nextWithFn(fns, due, i)
  IN IF j > Len(due)
     THEN [pc |-> "logout", due |-> due, idx |-> j, fn |-> NoFn, started |-> null]
     ELSE [pc |-> "exec", due |-> due, idx |-> j, fn |-> fns[due[j]], started |-> t]

Commit(m) ==
  /\ tasks' = m.tasks
  /\ taskFunctions' = m.fns
  /\ config' = m.config
  /\ file' = m.file

----------------------------------------------------------------------------
(* Construction *)

\* What config.json can hold when the process starts: any task enabled or not,
\* and either no timestamps (never run) or the timestamps an earlier run of the
\* process left.
ConfigDocs ==
  {[t \in TaskIds |->
      [enabled  |-> en[t],
       interval |-> IF t = "balance" THEN MaxMinutes ELSE 0,
       lastRun  |-> stale,
       nextRun  |-> stale]] :
     en \in [TaskIds -> BOOLEAN], stale \in {null, StaleTime}}

\* The constructor, lines 13-48.
constructTasks(cfg) ==
  [t \in TaskIds |->
     [enabled  |-> cfg[t].enabled,
      interval |-> IF t = "balance" THEN cfg[t].interval * MsPerMinute ELSE 0,
      lastRun  |-> cfg[t].lastRun,
      nextRun  |-> cfg[t].nextRun]]

Init ==
  /\ file \in ConfigDocs
  /\ config = file
  /\ tasks = constructTasks(file)
  /\ taskFunctions = [t \in TaskIds |-> NoFn]
  /\ isRunning = FALSE
  /\ currentlyExecuting = FALSE
  /\ now = StartTime
  /\ pass = [c \in Callers |-> IdlePass]
  /\ botRunning = FALSE
  /\ phase = "constructed"
  /\ calls = 0
  /\ lastOp = Op("constructor", NoId, FALSE, null, TRUE, FALSE)
  /\ pauseEndTime = null
  /\ timers = <<>>
  /\ writable = TRUE
  /\ restarts = <<>>

----------------------------------------------------------------------------
(* Actions *)

\* part_003 initialize(): registerTasks, setTaskEnabled for every feature, start.
Initialize ==
  /\ phase = "constructed"
  /\ LET m == enableFromConfig(registerTasks(Mem), 1, now)
     IN /\ Commit(m)
        /\ lastOp' = Op("initialize", NoId, FALSE, null, TRUE, m.saved)
  /\ isRunning' = TRUE
  /\ phase' = "initialised"
  /\ UNCHANGED <<restarts, writable, pauseEndTime, timers, calls, currentlyExecuting, now, pass, botRunning>>

\* A call from the command front-end or another caller, after initialisation.
Called ==
  /\ phase = "initialised"
  /\ calls < MaxCalls
  /\ calls' = calls + 1

RegisterTask(taskId, intervalMinutes) ==
  /\ Called
  /\ LET r == registerTask(Mem, taskId, hostFn(taskId), intervalMinutes)
     IN /\ Commit(r.mem)
        /\ lastOp' = [Op("registerTask", taskId, FALSE, intervalMinutes, r.ret, r.mem.saved)
                        EXCEPT !.fn = hostFn(taskId)]
  /\ UNCHANGED <<restarts, writable, pauseEndTime, timers, isRunning, currentlyExecuting, now, pass, botRunning, phase>>

SetTaskEnabled(taskId, enabled) ==
  /\ Called
  /\ LET r == setTaskEnabled(Mem, taskId, enabled, now)
     IN /\ Commit(r.mem)
        /\ lastOp' = Op("setTaskEnabled", taskId, enabled, null, r.ret, r.mem.saved)
  /\ UNCHANGED <<restarts, writable, pauseEndTime, timers, isRunning, currentlyExecuting, now, pass, botRunning, phase>>

SetTaskNextRun(taskId, minutes) ==
  /\ Called
  /\ LET r == setTaskNextRun(Mem, taskId, minutes, now)
     IN /\ Commit(r.mem)
        /\ lastOp' = Op("setTaskNextRun", taskId, FALSE, minutes, r.ret, r.mem.saved)
  /\ UNCHANGED <<restarts, writable, pauseEndTime, timers, isRunning, currentlyExecuting, now, pass, botRunning, phase>>

SetTaskInterval(taskId, minutes) ==
  /\ Called
  /\ LET r == setTaskInterval(Mem, taskId, minutes)
     IN /\ Commit(r.mem)
        /\ lastOp' = Op("setTaskInterval", taskId, FALSE, minutes, r.ret, r.mem.saved)
  /\ UNCHANGED <<restarts, writable, pauseEndTime, timers, isRunning, currentlyExecuting, now, pass, botRunning, phase>>

Start ==
  /\ Called
  /\ isRunning' = TRUE
  /\ lastOp' = Op("start", NoId, FALSE, null, TRUE, FALSE)
  /\ UNCHANGED <<restarts, writable, pauseEndTime, timers, tasks, taskFunctions, currentlyExecuting, config, file, now,
                 pass, botRunning, phase>>

Stop ==
  /\ Called
  /\ isRunning' = FALSE
  /\ lastOp' = Op("stop", NoId, FALSE, null, TRUE, FALSE)
  /\ UNCHANGED <<restarts, writable, pauseEndTime, timers, tasks, taskFunctions, currentlyExecuting, config, file, now,
                 pass, botRunning, phase>>

\* taskManager.start() on the module's singleton by a host that has
\* registered no executor: the descriptors are as the constructor left them.
StartUnregistered ==
  /\ phase = "constructed"
  /\ isRunning' = TRUE
  /\ phase' = "initialised"
  /\ lastOp' = Op("start", NoId, FALSE, null, TRUE, FALSE)
  /\ UNCHANGED <<restarts, writable, pauseEndTime, timers, calls, tasks, taskFunctions,
                 currentlyExecuting, config, file, now, pass, botRunning>>

\* discordBot.js setRunning: the run gate.
SetRunning(value) ==
  /\ Called
  /\ botRunning' = value
  /\ lastOp' = Op("setRunning", NoId, value, null, TRUE, FALSE)
  /\ UNCHANGED <<restarts, writable, pauseEndTime, timers, tasks, taskFunctions, isRunning, currentlyExecuting, config,
                 file, now, pass, phase>>

\* Mutant: the pass flag is set before the due list is looked at.
beginPass_FlagFirst(c) ==
  LET dueTasks == getDueTasks
  IN IF Len(dueTasks) = 0
     THEN /\ lastOp' = Op("executeDueTasks", NoId, FALSE, null, FALSE, FALSE)
          /\ currentlyExecuting' = TRUE
          /\ UNCHANGED pass
     ELSE /\ currentlyExecuting' = TRUE
          /\ pass' = [pass EXCEPT ![c] = [pc |-> "login", due |-> dueTasks, idx |-> 0,
                                          fn |-> NoFn, started |-> null]]
          /\ lastOp' = Op("passStarted", NoId, FALSE, null, TRUE, FALSE)

\* executeDueTasks up to its first await (lines 253-264).
beginPass(c) ==
  LET dueTasks == getDueTasks
  IN IF Len(dueTasks) = 0
     THEN /\ lastOp' = Op("executeDueTasks", NoId, FALSE, null, FALSE, FALSE)
          /\ UNCHANGED <<currentlyExecuting, pass>>
     ELSE /\ currentlyExecuting' = TRUE
          /\ pass' = [pass EXCEPT ![c] = [pc |-> "login", due |-> dueTasks, idx |-> 0,
                                          fn |-> NoFn, started |-> null]]
          /\ lastOp' = Op("passStarted", NoId, FALSE, null, TRUE, FALSE)

\* A direct call of taskManager.executeDueTasks().
ExecuteDueTasks ==
  /\ Called
  /\ pass["ext"].pc = "idle"
  /\ beginPass("ext")
  /\ UNCHANGED <<restarts, writable, pauseEndTime, timers, tasks, taskFunctions, isRunning, config, file, now, botRunning, phase>>

\* Mutant: the polling loop does not look at the run gate.
MainLoopPoll_IgnoresGate ==
  /\ phase = "initialised"
  /\ pass["loop"].pc = "idle"
  /\ IF ~currentlyExecuting /\ Len(getDueTasks) > 0
     THEN beginPass("loop")
     ELSE /\ lastOp' = Op("poll", NoId, FALSE, null, FALSE, FALSE)
          /\ UNCHANGED <<currentlyExecuting, pass>>
  /\ UNCHANGED <<restarts, writable, pauseEndTime, timers, calls, tasks, taskFunctions, isRunning, config, file, now, botRunning, phase>>

\* One iteration of mainLoop (part_003 lines 105-133), up to its await.
MainLoopPoll ==
  /\ phase = "initialised"
  /\ pass["loop"].pc = "idle"
  /\ IF botRunning /\ ~currentlyExecuting /\ Len(getDueTasks) > 0
     THEN beginPass("loop")
     ELSE /\ lastOp' = Op("poll", NoId, FALSE, null, FALSE, FALSE)
          /\ UNCHANGED <<currentlyExecuting, pass>>
  /\ UNCHANGED <<restarts, writable, pauseEndTime, timers, calls, tasks, taskFunctions, isRunning, config, file, now, botRunning, phase>>

\* The login timer fires: the loop starts the first executor (lines 264-272).
LoginDone(c) ==
  /\ pass[c].pc = "login"
  /\ pass' = [pass EXCEPT ![c] = loopFrom(taskFunctions, pass[c].due, 1, now)]
  /\ lastOp' = Op("login", NoId, FALSE, null, TRUE, FALSE)
  /\ UNCHANGED <<restarts, writable, pauseEndTime, timers, calls, tasks, taskFunctions, isRunning, currentlyExecuting, config,
                 file, now, botRunning, phase>>

\* The awaited executor's timer fires: it finishes and resolves, the pass
\* records the outcome and moves on to the next due task (lines 272-302).
ExecutorDone(c) ==
  /\ pass[c].pc = "exec"
  /\ ~Throws(pass[c].fn)
  /\ ~Hangs(pass[c].fn)
  /\ LET taskId == pass[c].due[pass[c].idx]
         m == recordSuccess(executorBody(Mem, pass[c].fn, now), taskId, now)
     IN /\ Commit(m)
        /\ pass' = [pass EXCEPT ![c] = loopFrom(m.fns, pass[c].due, pass[c].idx + 1, now)]
        /\ lastOp' = Op("taskCompleted", taskId, FALSE, null, TRUE, m.saved)
  /\ UNCHANGED <<restarts, writable, pauseEndTime, timers, calls, isRunning, currentlyExecuting, now, botRunning, phase>>

\* Mutant: a rejected executor ends the loop; the pass goes on to log out.
ExecutorFailed_Abort(c) ==
  /\ pass[c].pc = "exec"
  /\ Throws(pass[c].fn)
  /\ LET taskId == pass[c].due[pass[c].idx]
         m == executorBody(Mem, pass[c].fn, now)
     IN /\ Commit(m)
        /\ pass' = [pass EXCEPT ![c] = loopFrom(m.fns, pass[c].due, Len(pass[c].due) + 1, now)]
        /\ lastOp' = Op("taskFailed", taskId, FALSE, null, FALSE, m.saved)
  /\ UNCHANGED <<restarts, writable, pauseEndTime, timers, calls, isRunning, currentlyExecuting, now, botRunning, phase>>

\* The awaited executor rejects: the catch logs it and the loop moves on to
\* the next due task (lines 296-302).  What the executor did before it threw
\* stays done.
ExecutorFailed(c) ==
  /\ pass[c].pc = "exec"
  /\ Throws(pass[c].fn)
  /\ LET taskId == pass[c].due[pass[c].idx]
         m == executorBody(Mem, pass[c].fn, now)
     IN /\ Commit(m)
        /\ pass' = [pass EXCEPT ![c] = loopFrom(m.fns, pass[c].due, pass[c].idx + 1, now)]
        /\ lastOp' = Op("taskFailed", taskId, FALSE, null, FALSE, m.saved)
  /\ UNCHANGED <<restarts, writable, pauseEndTime, timers, calls, isRunning, currentlyExecuting, now, botRunning, phase>>

\* registerTask called with an executor other than the host's.
RegisterExecutor(taskId, executeFn) ==
  /\ Called
  /\ LET r == registerTask(Mem, taskId, executeFn, null)
     IN /\ Commit(r.mem)
        /\ lastOp' = [Op("registerTask", taskId, FALSE, null, r.ret, r.mem.saved)
                        EXCEPT !.fn = executeFn]
  /\ UNCHANGED <<restarts, writable, pauseEndTime, timers, isRunning, currentlyExecuting, now, pass, botRunning, phase>>

\* registerTask called with any executor and any interval argument.
RegisterTaskWith(taskId, executeFn, intervalMinutes) ==
  /\ Called
  /\ LET r == registerTask(Mem, taskId, executeFn, intervalMinutes)
     IN /\ Commit(r.mem)
        /\ lastOp' = [Op("registerTask", taskId, FALSE, intervalMinutes, r.ret, r.mem.saved)
                        EXCEPT !.fn = executeFn]
  /\ UNCHANGED <<restarts, writable, pauseEndTime, timers, isRunning, currentlyExecuting, now, pass, botRunning, phase>>

\* discordBot.js lines 168-171: the client's ready event opens the gate, before
\* any command has arrived.
ClientReady ==
  /\ phase = "initialised"
  /\ calls = 0
  /\ ~botRunning
  /\ botRunning' = TRUE
  /\ lastOp' = Op("ready", NoId, TRUE, null, TRUE, FALSE)
  /\ UNCHANGED <<restarts, writable, pauseEndTime, timers, calls, tasks, taskFunctions, isRunning,
                 currentlyExecuting, config, file, now, pass, phase>>

CommitGate(g) ==
  /\ botRunning' = g.running
  /\ pauseEndTime' = g.pauseEndTime
  /\ timers' = g.timers

\* Mutant: pausing also stops the scheduler.
PauseCommand_StopsScheduler(entry, minutes) ==
  /\ Called
  /\ IF Blocked(entry, botRunning, "pause")
     THEN /\ lastOp' = Op("pause", entry, FALSE, minutes, FALSE, FALSE)
          /\ UNCHANGED <<botRunning, pauseEndTime, timers, isRunning>>
     ELSE /\ CommitGate(handlePause(Gate, minutes, now))
          /\ isRunning' = FALSE
          /\ lastOp' = Op("pause", entry, FALSE, minutes, TRUE, FALSE)
  /\ UNCHANGED <<restarts, writable, tasks, taskFunctions, currentlyExecuting, config, file,
                 now, pass, phase>>

\* "!pause <minutes>" through an entry point.
PauseCommand(entry, minutes) ==
  /\ Called
  /\ IF Blocked(entry, botRunning, "pause")
     THEN /\ lastOp' = Op("pause", entry, FALSE, minutes, FALSE, FALSE)
          /\ UNCHANGED <<botRunning, pauseEndTime, timers>>
     ELSE /\ CommitGate(handlePause(Gate, minutes, now))
          /\ lastOp' = Op("pause", entry, FALSE, minutes, TRUE, FALSE)
  /\ UNCHANGED <<restarts, writable, tasks, taskFunctions, isRunning, currentlyExecuting, config, file,
                 now, pass, phase>>

\* "!resume" through an entry point.
ResumeCommand(entry) ==
  /\ Called
  /\ CommitGate(handleResume(Gate))
  /\ lastOp' = Op("resume", entry, TRUE, null, ~botRunning, FALSE)
  /\ UNCHANGED <<restarts, writable, tasks, taskFunctions, isRunning, currentlyExecuting, config, file,
                 now, pass, phase>>

\* A task command ("!farm on", "!balance interval 5", ...) through an entry
\* point.
TaskCommand(entry, taskId, sub, minutes) ==
  /\ Called
  /\ IF Blocked(entry, botRunning, taskId)
     THEN /\ lastOp' = Op(sub, taskId, sub = "on", minutes, FALSE, FALSE)
          /\ UNCHANGED <<tasks, taskFunctions, config, file>>
     ELSE LET r == commandEffect(Mem, taskId, sub, minutes, now)
          IN /\ Commit(r.mem)
             /\ lastOp' = Op(sub, taskId, sub = "on", minutes, r.ret, r.mem.saved)
  /\ UNCHANGED <<restarts, writable, pauseEndTime, timers, isRunning, currentlyExecuting, now, pass,
                 botRunning, phase>>

\* helper.js restartTask (and the restart handler of commands/balance.js):
\* disable the task if it is enabled, then set a timer that enables it.
RestartCommand(taskId) ==
  /\ Called
  /\ LET taskStatus == getTaskStatus(taskId)
         r == IF taskStatus.enabled
              THEN setTaskEnabled(Mem, taskId, FALSE, now)
              ELSE [mem |-> Mem, ret |-> TRUE]
     IN /\ Commit(r.mem)
        /\ lastOp' = Op("restart", taskId, FALSE, null, r.ret, r.mem.saved)
  /\ restarts' = Append(restarts, [id |-> taskId, at |-> now + RestartDelay])
  /\ UNCHANGED <<writable, pauseEndTime, timers, isRunning, currentlyExecuting, now,
                 pass, botRunning, phase>>

\* The i-th pending restart timer fires, the clock having reached its time:
\* the callback enables the task.
RestartFires(i) ==
  /\ i \in 1..Len(restarts)
  /\ now' = Max(now, restarts[i].at)
  /\ LET r == setTaskEnabled(Mem, restarts[i].id, TRUE, now')
     IN /\ Commit(r.mem)
        /\ lastOp' = Op("restartFired", restarts[i].id, TRUE, null, r.ret, r.mem.saved)
  /\ restarts' = RemoveAt(restarts, i)
  /\ UNCHANGED <<writable, pauseEndTime, timers, calls, isRunning, currentlyExecuting,
                 pass, botRunning, phase>>

\* "!pause ..." through the execute of pause.js (lines 59-90), which hands
\* the arguments to processCommand.
PauseExecute(entry, args, subcommandAliases) ==
  /\ Called
  /\ LET handler == processCommand(args, Handlers, subcommandAliases)
         acts == HandlerActs(entry, "pause", handler, botRunning)
     IN /\ CommitGate(IF acts THEN handlePauseArgs(Gate, args, now) ELSE Gate)
        /\ lastOp' = Op("pause.execute", entry, FALSE, null, acts, FALSE)
                       @@ [args |-> args, handler |-> handler]
  /\ UNCHANGED <<restarts, writable, tasks, taskFunctions, isRunning, currentlyExecuting,
                 config, file, now, pass, phase>>

\* "!resume ..." through the execute of resume.js (lines 18-49).
ResumeExecute(entry, args, subcommandAliases) ==
  /\ Called
  /\ LET handler == processCommand(args, Handlers, subcommandAliases)
         acts == HandlerActs(entry, "resume", handler, botRunning)
     IN /\ CommitGate(IF acts THEN handleResume(Gate) ELSE Gate)
        /\ lastOp' = Op("resume.execute", entry, TRUE, null, acts, FALSE)
                       @@ [args |-> args, handler |-> handler]
  /\ UNCHANGED <<restarts, writable, tasks, taskFunctions, isRunning, currentlyExecuting,
                 config, file, now, pass, phase>>

\* A pending auto-resume timer fires once its time has come.
AutoResume(i) ==
  /\ i \in 1..Len(timers)
  /\ timers[i] <= now
  /\ CommitGate(autoResume(Gate, i))
  /\ lastOp' = Op("autoResume", NoId, TRUE, null, TRUE, FALSE)
  /\ UNCHANGED <<restarts, writable, calls, tasks, taskFunctions, isRunning, currentlyExecuting, config,
                 file, now, pass, phase>>

\* Mutant: the pass returns without clearing its flag.
LogoutDone_KeepsFlag(c) ==
  /\ pass[c].pc = "logout"
  /\ currentlyExecuting' = currentlyExecuting
  /\ pass' = [pass EXCEPT ![c] = IdlePass]
  /\ lastOp' = Op("executeDueTasks", NoId, FALSE, null, TRUE, FALSE)
  /\ UNCHANGED <<restarts, writable, pauseEndTime, timers, calls, tasks, taskFunctions, isRunning, config, file, now, botRunning, phase>>

\* The logout timer fires: finally, return true (lines 306-313).
LogoutDone(c) ==
  /\ pass[c].pc = "logout"
  /\ currentlyExecuting' = FALSE
  /\ pass' = [pass EXCEPT ![c] = IdlePass]
  /\ lastOp' = Op("executeDueTasks", NoId, FALSE, null, TRUE, FALSE)
  /\ UNCHANGED <<restarts, writable, pauseEndTime, timers, calls, tasks, taskFunctions, isRunning, config, file, now, botRunning, phase>>

\* The clock advances, once every timer that is due has fired.
Tick ==
  /\ now < MaxNow
  /\ \A i \in 1..Len(timers) : timers[i] > now
  /\ \A i \in 1..Len(restarts) : restarts[i].at > now + MsPerMinute
  /\ now' = now + MsPerMinute
  /\ lastOp' = Op("tick", NoId, FALSE, null, TRUE, FALSE)
  /\ UNCHANGED <<restarts, writable, pauseEndTime, timers, calls, tasks, taskFunctions, isRunning, currentlyExecuting, config,
                 file, pass, botRunning, phase>>

\* config.json stops being writable (permissions, a full disk), or becomes
\* writable again.
WriteFault ==
  /\ phase = "initialised"
  /\ writable' = ~writable
  /\ lastOp' = Op("writeFault", NoId, FALSE, null, TRUE, FALSE)
  /\ UNCHANGED <<restarts, pauseEndTime, timers, calls, tasks, taskFunctions, isRunning,
                 currentlyExecuting, config, file, now, pass, botRunning, phase>>

Next ==
  \/ Initialize
  \/ \E taskId \in Ids, intervalMinutes \in Minutes \cup {null} :
       RegisterTask(taskId, intervalMinutes)
  \/ \E taskId \in Ids, enabled \in BOOLEAN : SetTaskEnabled(taskId, enabled)
  \/ \E taskId \in Ids, minutes \in Minutes : SetTaskNextRun(taskId, minutes)
  \/ \E taskId \in Ids, minutes \in Minutes : SetTaskInterval(taskId, minutes)
  \/ Start
  \/ Stop
  \/ \E value \in BOOLEAN : SetRunning(value)
  \/ ExecuteDueTasks
  \/ MainLoopPoll
  \/ \E c \in Callers : LoginDone(c)
  \/ \E c \in Callers : ExecutorDone(c)
  \/ \E c \in Callers : LogoutDone(c)
  \/ Tick

Spec == Init /\ [][Next]_vars

\* The task manager driven with executors of any kind: they may resolve
\* without rescheduling, or reject.
NextExec ==
  \/ Initialize
  \/ \E taskId \in TaskIds, executeFn \in Executors : RegisterExecutor(taskId, executeFn)
  \/ \E taskId \in TaskIds, enabled \in BOOLEAN : SetTaskEnabled(taskId, enabled)
  \/ ExecuteDueTasks
  \/ \E c \in Callers : LoginDone(c)
  \/ \E c \in Callers : ExecutorDone(c)
  \/ \E c \in Callers : ExecutorFailed(c)
  \/ \E c \in Callers : LogoutDone(c)
  \/ Tick

SpecExec == Init /\ [][NextExec]_vars

\* The command front-end: pause, resume and task commands arriving through
\* either entry point, and the auto-resume timers, with no pass running.
NextGate ==
  \/ Initialize
  \/ ClientReady
  \/ \E entry \in Entries, minutes \in PauseMinutes : PauseCommand(entry, minutes)
  \/ \E entry \in Entries : ResumeCommand(entry)
  \/ \E entry \in Entries, taskId \in TaskIds, sub \in Subcommands :
       \E minutes \in ArgsOf(sub) : TaskCommand(entry, taskId, sub, minutes)
  \/ \E i \in 1..MaxCalls : AutoResume(i)
  \/ Tick

SpecGate == Init /\ [][NextGate]_vars

\* Executors registered and replaced, for a dynamic task and for the
\* fixed-interval task, while the polling loop runs passes.
NextRegister ==
  \/ Initialize
  \/ ClientReady
  \/ \E taskId \in {"farm", "balance"}, executeFn \in {QuietFn, ThrowFn},
        intervalMinutes \in Minutes \cup {null} :
       RegisterTaskWith(taskId, executeFn, intervalMinutes)
  \/ MainLoopPoll
  \/ \E c \in Callers : LoginDone(c)
  \/ \E c \in Callers : ExecutorDone(c)
  \/ \E c \in Callers : ExecutorFailed(c)
  \/ \E c \in Callers : LogoutDone(c)
  \/ Tick

SpecRegister == Init /\ [][NextRegister]_vars

\* The polling loop under the two switches: start and stop of the scheduler,
\* pause and resume of the run gate.
NextPoll ==
  \/ Initialize
  \/ ClientReady
  \/ Start
  \/ Stop
  \/ \E entry \in Entries, minutes \in PauseMinutes : PauseCommand(entry, minutes)
  \/ \E entry \in Entries : ResumeCommand(entry)
  \/ \E i \in 1..MaxCalls : AutoResume(i)
  \/ ExecuteDueTasks
  \/ MainLoopPoll
  \/ \E c \in Callers : LoginDone(c)
  \/ \E c \in Callers : ExecutorDone(c)
  \/ \E c \in Callers : LogoutDone(c)
  \/ Tick

SpecPoll == Init /\ [][NextPoll]_vars

\* The polling loop and a second caller of executeDueTasks, with tasks
\* disabled and the scheduler stopped while passes run.
NextLive ==
  \/ Initialize
  \/ ClientReady
  \/ Stop
  \/ \E taskId \in TaskIds : SetTaskEnabled(taskId, FALSE)
  \/ ExecuteDueTasks
  \/ MainLoopPoll
  \/ \E c \in Callers : LoginDone(c)
  \/ \E c \in Callers : ExecutorDone(c)
  \/ \E c \in Callers : LogoutDone(c)
  \/ Tick

\* The awaited executor resolves and the pass of caller c resumes: the step
\* ExecutorDone(c) takes, seen on the pass alone.
ExecutorSettles(c) ==
  /\ pass[c].pc = "exec"
  /\ ~Throws(pass[c].fn)
  /\ ~Hangs(pass[c].fn)
  /\ pass' = [pass EXCEPT ![c] = loopFrom(taskFunctions, pass[c].due, pass[c].idx + 1, now)]

\* The loop keeps polling (the setTimeout of mainLoop fires), the login and
\* logout timers fire and every executor resolves.
FairLive ==
  /\ WF_vars(MainLoopPoll)
  /\ \A c \in Callers : /\ WF_vars(LoginDone(c))
                        /\ WF_pass(ExecutorSettles(c))
                        /\ WF_vars(LogoutDone(c))

SpecLive == Init /\ [][NextLive]_vars /\ FairLive

\* Passes over executors that resolve, reject or never settle.
NextHang ==
  \/ Initialize
  \/ ClientReady
  \/ \E taskId \in TaskIds, executeFn \in {ThrowFn, HangFn} :
       RegisterExecutor(taskId, executeFn)
  \/ ExecuteDueTasks
  \/ MainLoopPoll
  \/ \E c \in Callers : LoginDone(c)
  \/ \E c \in Callers : ExecutorDone(c)
  \/ \E c \in Callers : ExecutorFailed(c)
  \/ \E c \in Callers : LogoutDone(c)
  \/ Tick

\* The login and logout timers fire, and an executor that settles does so:
\* it resolves or it rejects.
FairHang ==
  \A c \in Callers : /\ WF_vars(LoginDone(c))
                     /\ WF_pass(ExecutorSettles(c))
                     /\ WF_vars(ExecutorFailed(c))
                     /\ WF_vars(LogoutDone(c))

SpecHang == Init /\ [][NextHang]_vars /\ FairHang

\* The task manager started with executors registered for some tasks only.
NextPartial ==
  \/ StartUnregistered
  \/ \E taskId \in TaskIds, executeFn \in {QuietFn, ThrowFn} :
       RegisterExecutor(taskId, executeFn)
  \/ \E taskId \in TaskIds, enabled \in BOOLEAN : SetTaskEnabled(taskId, enabled)
  \/ ExecuteDueTasks
  \/ \E c \in Callers : LoginDone(c)
  \/ \E c \in Callers : ExecutorDone(c)
  \/ \E c \in Callers : ExecutorFailed(c)
  \/ \E c \in Callers : LogoutDone(c)
  \/ Tick

SpecPartial == Init /\ [][NextPartial]_vars

\* The schedule commands of the administrator for balance (next and interval)
\* arriving while the main loop runs its passes.
NextAdmin ==
  \/ Initialize
  \/ ClientReady
  \/ \E minutes \in Minutes : SetTaskNextRun("balance", minutes)
  \/ \E minutes \in Minutes : SetTaskInterval("balance", minutes)
  \/ MainLoopPoll
  \/ \E c \in Callers : LoginDone(c)
  \/ \E c \in Callers : ExecutorDone(c)
  \/ \E c \in Callers : LogoutDone(c)
  \/ Tick

SpecAdmin == Init /\ [][NextAdmin]_vars

\* Every control operation of the scheduler and of the run gate, applied to
\* balance, beside the passes of the main loop, with executors that resolve or
\* reject.
NextFrame ==
  \/ Initialize
  \/ ClientReady
  \/ RegisterTaskWith("balance", ThrowFn, null)
  \/ \E enabled \in BOOLEAN : SetTaskEnabled("balance", enabled)
  \/ SetTaskNextRun("balance", 0)
  \/ SetTaskInterval("balance", MaxMinutes)
  \/ Start
  \/ Stop
  \/ PauseCommand("terminal", MaxMinutes)
  \/ ResumeCommand("terminal")
  \/ \E i \in 1..MaxCalls : AutoResume(i)
  \/ MainLoopPoll
  \/ \E c \in Callers : LoginDone(c)
  \/ \E c \in Callers : ExecutorDone(c)
  \/ \E c \in Callers : ExecutorFailed(c)
  \/ \E c \in Callers : LogoutDone(c)
  \/ Tick

SpecFrame == Init /\ [][NextFrame]_vars

\* The pause and resume commands dispatched through their execute, beside
\* the gate being set directly.
NextDispatch ==
  \/ Initialize
  \/ ClientReady
  \/ \E entry \in Entries, args \in ArgLists, subcommandAliases \in AliasTables :
       PauseExecute(entry, args, subcommandAliases)
  \/ \E entry \in Entries, args \in ArgLists, subcommandAliases \in AliasTables :
       ResumeExecute(entry, args, subcommandAliases)
  \/ \E value \in BOOLEAN : SetRunning(value)
  \/ Tick

SpecDispatch == Init /\ [][NextDispatch]_vars

\* The restart command beside the on and off commands and passes.
NextRestart ==
  \/ Initialize
  \/ \E taskId \in TaskIds : RestartCommand(taskId)
  \/ \E i \in 1..MaxCalls : RestartFires(i)
  \/ \E taskId \in TaskIds, enabled \in BOOLEAN : SetTaskEnabled(taskId, enabled)
  \/ ExecuteDueTasks
  \/ \E c \in Callers : LoginDone(c)
  \/ \E c \in Callers : ExecutorDone(c)
  \/ \E c \in Callers : LogoutDone(c)
  \/ Tick

SpecRestart == Init /\ [][NextRestart]_vars

\* The task manager with a config file whose writes may fail.
NextDisk ==
  \/ Initialize
  \/ WriteFault
  \/ \E taskId \in TaskIds, enabled \in BOOLEAN : SetTaskEnabled(taskId, enabled)
  \/ \E taskId \in TaskIds, minutes \in Minutes : SetTaskNextRun(taskId, minutes)
  \/ \E taskId \in TaskIds, minutes \in Minutes : SetTaskInterval(taskId, minutes)
  \/ ExecuteDueTasks
  \/ \E c \in Callers : LoginDone(c)
  \/ \E c \in Callers : ExecutorDone(c)
  \/ \E c \in Callers : LogoutDone(c)
  \/ Tick

SpecDisk == Init /\ [][NextDisk]_vars

----------------------------------------------------------------------------
(* Properties *)

Initialised == phase = "initialised"

ActiveCallers == {c \in Callers : pass[c].pc # "idle"}

\* A task is due by its own fields: enabled, scheduled, and the time has come.
DueByFields(t) ==
  tasks[t].enabled /\ tasks[t].nextRun # null /\ tasks[t].nextRun <= now

\* The position of a task in the definition order of the constructor.
Rank(t) == CASE t = "farm" -> 1 [] t = "balance" -> 2 [] t = "train" -> 3

\* config.json holds, for every task, what the task descriptors hold.
FileMatches(f, ts) ==
  /\ \A t \in TaskIds : /\ f[t].enabled = ts[t].enabled
                        /\ f[t].lastRun = ts[t].lastRun
                        /\ f[t].nextRun = ts[t].nextRun
  /\ f["balance"].interval * MsPerMinute = ts["balance"].interval

\* C1: once initialised, a task that is not enabled has no next run, under
\* every interleaving of calls with a pass in flight.  (Stated as claimed; the
\* pass breaks it when balance is disabled while its executor is awaited.)
C1_DisabledHasNoNextRun ==
  Initialised => \A t \in TaskIds : ~tasks[t].enabled => tasks[t].nextRun = null

\* C2: at most one execution pass is in progress at any time, and a pass is in
\* progress exactly while currentlyExecuting is set: an invocation made during
\* a pass starts nothing.
C2_AtMostOnePass ==
  /\ Cardinality(ActiveCallers) <= 1
  /\ currentlyExecuting <=> ActiveCallers # {}

\* C2 witness: executeDueTasks was called and returned false while the polling
\* loop's pass was in flight, the scheduler started and a task due by its fields.
C2_Witness ==
  /\ lastOp.op = "executeDueTasks" /\ ~lastOp.ret
  /\ pass["loop"].pc \in {"login", "exec"}
  /\ isRunning
  /\ \E t \in TaskIds : DueByFields(t)

\* C3: getDueTasks is empty whenever the scheduler is stopped or a pass is
\* executing, however many tasks are enabled with nextRun <= now.
C3_EmptyWhenStoppedOrExecuting ==
  (~isRunning \/ currentlyExecuting) => getDueTasks = <<>>

\* C3 witness: the scheduler is stopped with no pass executing and two tasks
\* are due by their fields.
C3_Witness ==
  /\ Initialised /\ ~isRunning /\ ~currentlyExecuting
  /\ Cardinality({t \in TaskIds : DueByFields(t)}) >= 2

\* C4: started and with no pass executing, getDueTasks lists exactly the tasks
\* that are enabled with nextRun set and nextRun <= now, in the order farm,
\* balance, train.
C4_DueTasksExactAndOrdered ==
  (isRunning /\ ~currentlyExecuting) =>
    /\ {getDueTasks[i] : i \in 1..Len(getDueTasks)}
         = {t \in TaskIds : DueByFields(t)}
    /\ \A i, j \in 1..Len(getDueTasks) :
         i < j => Rank(getDueTasks[i]) < Rank(getDueTasks[j])

\* C4 witness: all three tasks are listed, train having become due before farm.
C4_Witness ==
  /\ isRunning /\ ~currentlyExecuting
  /\ getDueTasks = <<"farm", "balance", "train">>
  /\ tasks["train"].nextRun < tasks["farm"].nextRun
  /\ tasks["farm"].nextRun = now

\* C5: setTaskEnabled on a known id succeeds; enabling sets nextRun to now when
\* it was absent and leaves it alone otherwise, disabling leaves it absent;
\* lastRun and interval of every task are unchanged and the file is rewritten
\* to match the task descriptors.
C5_SetTaskEnabled ==
  [][(lastOp'.op = "setTaskEnabled" /\ lastOp'.id \in TaskIds) =>
       LET id == lastOp'.id IN
       /\ lastOp'.ret
       /\ tasks'[id].enabled = lastOp'.enabled
       /\ lastOp'.enabled =>
            tasks'[id].nextRun = IF tasks[id].nextRun = null
                                 THEN now ELSE tasks[id].nextRun
       /\ ~lastOp'.enabled => tasks'[id].nextRun = null
       /\ \A t \in TaskIds : /\ tasks'[t].lastRun = tasks[t].lastRun
                             /\ tasks'[t].interval = tasks[t].interval
       /\ \A t \in TaskIds \ {id} : tasks'[t] = tasks[t]
       /\ lastOp'.saved
       /\ FileMatches(file', tasks')]_vars

\* C5 witness: an enabled, already scheduled task was enabled again and kept a
\* next run that is not now.
C5_Witness ==
  /\ lastOp.op = "setTaskEnabled" /\ lastOp.id \in TaskIds
  /\ lastOp.enabled /\ lastOp.ret
  /\ tasks[lastOp.id].nextRun # null
  /\ tasks[lastOp.id].nextRun # now
  /\ tasks[lastOp.id].lastRun # null

\* C6: setTaskNextRun on a disabled task fails and changes neither the task
\* descriptors nor the config document; on an enabled task it succeeds and sets
\* nextRun to now + minutes * 60000.
C6_SetTaskNextRun ==
  [][(lastOp'.op = "setTaskNextRun" /\ lastOp'.id \in TaskIds) =>
       LET id == lastOp'.id IN
       IF tasks[id].enabled
       THEN /\ lastOp'.ret
            /\ tasks'[id].nextRun = now + lastOp'.minutes * MsPerMinute
       ELSE /\ ~lastOp'.ret
            /\ tasks' = tasks
            /\ config' = config
            /\ file' = file
            /\ ~lastOp'.saved]_vars

\* C6 witness: the call, given a positive number of minutes, failed on a
\* disabled task.
C6_Witness ==
  /\ lastOp.op = "setTaskNextRun" /\ lastOp.id \in TaskIds
  /\ ~lastOp.ret
  /\ ~tasks[lastOp.id].enabled
  /\ lastOp.minutes = MaxMinutes

\* C7: an interval given for a task other than balance is rejected on both
\* paths that take one: the call fails and changes nothing.  (Stated as
\* claimed; registerTask returns true and drops the interval.)
C7_IntervalRejectedOffBalance ==
  [][(/\ lastOp'.op \in {"setTaskInterval", "registerTask"}
      /\ lastOp'.id \in TaskIds \ {"balance"}
      /\ lastOp'.minutes # null) =>
       /\ ~lastOp'.ret
       /\ tasks' = tasks
       /\ file' = file]_vars

\* C8: setTaskInterval('balance', M) succeeds and stores interval = M * 60000;
\* nextRun becomes lastRun + M * 60000 when balance is enabled and has a
\* lastRun, and is unchanged otherwise.
C8_SetBalanceInterval ==
  [][(lastOp'.op = "setTaskInterval" /\ lastOp'.id = "balance") =>
       /\ lastOp'.ret
       /\ tasks'["balance"].interval = lastOp'.minutes * MsPerMinute
       /\ tasks'["balance"].nextRun =
            IF tasks["balance"].enabled /\ tasks["balance"].lastRun # null
            THEN tasks["balance"].lastRun + lastOp'.minutes * MsPerMinute
            ELSE tasks["balance"].nextRun]_vars

\* C8 witness: the interval of an enabled balance with a lastRun was set, and
\* its next run moved to lastRun + interval, which is not now + interval.
C8_Witness ==
  /\ lastOp.op = "setTaskInterval" /\ lastOp.id = "balance"
  /\ lastOp.minutes = MaxMinutes
  /\ tasks["balance"].enabled
  /\ tasks["balance"].lastRun # null
  /\ tasks["balance"].nextRun = tasks["balance"].lastRun + MaxMinutes * MsPerMinute
  /\ tasks["balance"].nextRun # now + MaxMinutes * MsPerMinute

AfterExecutor(id) ==
  IF tasks[id].enabled
  THEN now + (IF id = "farm" THEN returnTimeMinutes ELSE cooldownMinutes) * MsPerMinute
  ELSE tasks[id].nextRun

\* C10 as claimed: on success the pass sets lastRun to now; for balance it
\* sets nextRun = now + interval; for farm and train nextRun is what the
\* executor set.  (Fails for balance when its interval is 0.)
C10_Original ==
  [][lastOp'.op = "taskCompleted" =>
       LET id == lastOp'.id IN
       /\ tasks'[id].lastRun = now
       /\ id = "balance" => tasks'[id].nextRun = now + tasks[id].interval
       /\ id # "balance" => tasks'[id].nextRun = AfterExecutor(id)]_vars

\* C10 amended: as claimed, but balance's nextRun is set to now + interval
\* only when the interval is positive; with interval 0 it is left unchanged.
C10_PassRecordsSuccess ==
  [][lastOp'.op = "taskCompleted" =>
       LET id == lastOp'.id IN
       /\ tasks'[id].lastRun = now
       /\ id = "balance" =>
            tasks'[id].nextRun = IF tasks[id].interval > 0
                                 THEN now + tasks[id].interval
                                 ELSE tasks[id].nextRun
       /\ id # "balance" => tasks'[id].nextRun = AfterExecutor(id)]_vars

\* C10 witness: farm completed in a pass and carries the next run its executor
\* set, although the pass recorded its lastRun.
C10_Witness ==
  /\ lastOp.op = "taskCompleted" /\ lastOp.id = "farm"
  /\ tasks["farm"].lastRun = now
  /\ tasks["farm"].nextRun = now + returnTimeMinutes * MsPerMinute

\* C11: when an executor that started at time s resolves at a later time, the
\* pass leaves the task's lastRun equal to s, the start of the execution.
\* (Stated as claimed; the pass records the time at which the executor
\* resolved.)
C11_LastRunIsStart ==
  [][\A c \in Callers :
       (/\ pass[c].pc = "exec"
        /\ pass[c].started < now
        /\ lastOp'.op = "taskCompleted"
        /\ pass'[c] # pass[c]) =>
         tasks'[lastOp'.id].lastRun = pass[c].started]_vars

\* A task is listed by getDueTasks once no pass is executing and the scheduler
\* is started.
ListedWhenPolled(ts, taskId, t) ==
  \E i \in 1..Len(dueNow(ts, t)) : dueNow(ts, t)[i] = taskId

\* C12: when a dynamic task (farm, train) completes in a pass and its executor
\* did not call setTaskNextRun, the task is left enabled with no next run, so
\* a later poll does not list it.  (Stated as claimed; the pass leaves the old
\* nextRun in place and the task is due again at once.)
C12_UnscheduledWhenNotRescheduled ==
  [][\A c \in Callers :
       (/\ pass[c].pc = "exec"
        /\ pass[c].fn = QuietFn
        /\ lastOp'.op = "taskCompleted"
        /\ lastOp'.id \in {"farm", "train"}
        /\ pass'[c] # pass[c]
        /\ tasks'[lastOp'.id].enabled) =>
         /\ tasks'[lastOp'.id].nextRun = null
         /\ ~ListedWhenPolled(tasks', lastOp'.id, now)]_vars

\* The positions after i of the due list whose task has an executor.
LaterWithFn(due, i) == {j \in (i + 1)..Len(due) : taskFunctions[due[j]] # NoFn}

\* C13: when a task's executor rejects during a pass, the failing task keeps
\* its lastRun and its enabled flag, the pass goes on to the next due task that
\* has an executor (or to the session close when there is none), and
\* currentlyExecuting is false once the pass has returned.
C13_FailureIsContained ==
  [][/\ \A c \in Callers :
          (/\ pass[c].pc = "exec"
           /\ lastOp'.op = "taskFailed"
           /\ pass'[c] # pass[c]) =>
            LET id == lastOp'.id
                later == LaterWithFn(pass[c].due, pass[c].idx)
            IN /\ tasks'[id].lastRun = tasks[id].lastRun
               /\ tasks'[id].enabled = tasks[id].enabled
               /\ pass'[c].due = pass[c].due
               /\ IF later = {}
                  THEN pass'[c].pc = "logout"
                  ELSE /\ pass'[c].pc = "exec"
                       /\ pass'[c].idx \in later
                       /\ \A j \in later : pass'[c].idx <= j
     /\ (lastOp'.op = "executeDueTasks" /\ lastOp'.ret) => ~currentlyExecuting']_vars

\* C13 witness: farm's executor rejected at the head of a pass, balance was
\* run after it and completed, and farm is still enabled with the lastRun it
\* had before the process started.
C13_Witness ==
  /\ lastOp.op = "taskCompleted" /\ lastOp.id = "balance"
  /\ \E c \in Callers : /\ pass[c].pc \in {"exec", "logout"}
                        /\ Len(pass[c].due) >= 2
                        /\ pass[c].due[1] = "farm" /\ pass[c].due[2] = "balance"
  /\ Throws(taskFunctions["farm"])
  /\ tasks["farm"].enabled
  /\ tasks["farm"].lastRun < StartTime
  /\ tasks["balance"].lastRun = now

\* C14: when a task's executor fails, whatever the executor did before it
\* threw, the task's nextRun is what it was before, so the task, if still
\* enabled, is listed again at the next poll; the pass does not run it a second
\* time.  (Stated as claimed; a setTaskNextRun call the executor made before
\* throwing stays in force.)
C14_FailureKeepsNextRun ==
  [][\A c \in Callers :
       (/\ pass[c].pc = "exec"
        /\ lastOp'.op = "taskFailed"
        /\ pass'[c] # pass[c]) =>
         LET id == lastOp'.id
         IN /\ tasks'[id].nextRun = tasks[id].nextRun
            /\ tasks'[id].enabled => ListedWhenPolled(tasks', id, now)
            /\ pass'[c].idx > pass[c].idx]_vars

\* The calls that can change a task descriptor.
MutatingCall(op) ==
  \/ op.op \in {"setTaskEnabled", "setTaskNextRun", "setTaskInterval"}
  \/ op.op = "registerTask" /\ op.minutes # null

\* C15: when a mutating call of the task manager returns (registerTask with an
\* interval, setTaskEnabled, setTaskNextRun, setTaskInterval), config.json
\* holds every task's enabled, interval, lastRun and nextRun as the task
\* descriptors hold them.  (Stated as claimed; registerTask changes the
\* interval of balance and persists nothing.)
C15_MutationsPersisted ==
  [][MutatingCall(lastOp') => FileMatches(file', tasks')]_vars

\* The tasks of a pass that the loop has already left behind.
DoneInPass(p) ==
  IF p.pc \in {"exec", "logout"}
  THEN {p.due[j] : j \in 1..(p.idx - 1)} \cap {p.due[j] : j \in 1..Len(p.due)}
  ELSE {}

\* C16: the pass persists each task's outcome in the turn that records it,
\* before the next executor is awaited: at every point of a pass config.json
\* holds, for every task the pass has completed, the lastRun and nextRun of
\* its descriptor, and at the moment a task completes the file holds the
\* lastRun just recorded.
C16_PersistedAfterEachTask ==
  [][/\ \A c \in Callers : \A t \in DoneInPass(pass'[c]) :
          /\ file'[t].lastRun = tasks'[t].lastRun
          /\ file'[t].nextRun = tasks'[t].nextRun
     /\ lastOp'.op = "taskCompleted" =>
          /\ lastOp'.saved
          /\ file'[lastOp'.id].lastRun = now
          /\ file'[lastOp'.id].nextRun = tasks'[lastOp'.id].nextRun]_vars

\* C16 witness: a point in the middle of a pass: the first due task has just
\* completed and is on disk with its new lastRun, the second one's executor is
\* awaited and its lastRun on disk is still an older one.
C16_Witness ==
  /\ lastOp.op = "taskCompleted"
  /\ \E c \in Callers :
       /\ pass[c].pc = "exec" /\ pass[c].idx = 2
       /\ lastOp.id = pass[c].due[1]
       /\ file[pass[c].due[1]].lastRun = now
       /\ file[pass[c].due[1]].nextRun = tasks[pass[c].due[1]].nextRun
       /\ file[pass[c].due[2]].lastRun < now

\* C17: a task command (on, off, schedule, interval) issued through a command
\* entry point while a pause keeps the run gate closed reaches the task manager and has
\* the effect of the call it stands for.  (Stated as claimed; handleMessage
\* turns every command but resume and status away while the bot is paused.)
C17_CommandsPassClosedGate ==
  [][(lastOp'.op \in Subcommands /\ ~botRunning /\ pauseEndTime # null) =>
       LET r == commandEffect(Mem, lastOp'.id, lastOp'.op, lastOp'.minutes, now)
       IN /\ tasks' = r.mem.tasks
          /\ file' = r.mem.file
          /\ lastOp'.ret = r.ret
          /\ lastOp'.saved = r.mem.saved]_vars

\* C18: a pause issued while an earlier pause's auto-resume timer is pending
\* replaces that timer: at most one auto-resume timer is pending at any time,
\* and the gate is reopened by a timer only once the end time of the latest
\* pause has come.  (Stated as claimed; every pause adds a timer and none is
\* ever cancelled.)
C18_SingleAutoResumeTimer ==
  [][/\ Len(timers') <= 1
     /\ (lastOp'.op = "autoResume" /\ pauseEndTime # null) => pauseEndTime <= now]_vars

\* C19: pausing, resuming and the auto-resume timer change only the run gate:
\* every task's enabled, interval, lastRun and nextRun, the registered
\* executors, the scheduler's started flag, the pass flag and config.json are
\* left as they were.
C19_GateFrame ==
  [][lastOp'.op \in {"pause", "resume", "autoResume"} =>
       /\ tasks' = tasks
       /\ taskFunctions' = taskFunctions
       /\ isRunning' = isRunning
       /\ currentlyExecuting' = currentlyExecuting
       /\ config' = config
       /\ file' = file]_vars

\* C19 witness: a pause was made and its timer has reopened the gate, with the
\* scheduler started and a task enabled and still scheduled.
C19_Witness ==
  /\ lastOp.op = "autoResume"
  /\ botRunning /\ pauseEndTime = null
  /\ isRunning
  /\ \E t \in TaskIds : tasks[t].enabled /\ tasks[t].nextRun # null

\* C20: executeDueTasks called when no task is due, or when the scheduler is
\* stopped, returns false at once: currentlyExecuting is not set, no session
\* is opened and no executor awaited (no pass begins), and no task descriptor,
\* executor or config document is changed or saved.
C20_NothingDueNoEffect ==
  [][(/\ calls' = calls + 1
      /\ lastOp'.op \in {"executeDueTasks", "passStarted"}
      /\ (~isRunning \/ \A t \in TaskIds : ~DueByFields(t))) =>
       /\ lastOp'.op = "executeDueTasks" /\ ~lastOp'.ret
       /\ currentlyExecuting' = currentlyExecuting
       /\ pass' = pass
       /\ tasks' = tasks
       /\ taskFunctions' = taskFunctions
       /\ config' = config
       /\ file' = file
       /\ ~lastOp'.saved]_vars

\* C20 witness: executeDueTasks returned false with no pass in progress: the
\* scheduler had been stopped while a task was due by its fields.
C20_Witness ==
  /\ lastOp.op = "executeDueTasks" /\ ~lastOp.ret
  /\ ~currentlyExecuting
  /\ ActiveCallers = {}
  /\ ~isRunning
  /\ \E t \in TaskIds : DueByFields(t)

\* The steps a pass may take: session open, then executors, then session
\* close, then the return.
PassStep(from, to) ==
  \/ from = "idle" /\ to = "login"
  \/ from = "login" /\ to \in {"exec", "logout"}
  \/ from = "exec" /\ to \in {"exec", "logout"}
  \/ from = "logout" /\ to = "idle"

\* C21: within a pass the session is opened once, before the first executor
\* starts, and closed once, after the last due task has been attempted, also
\* when executors failed; currentlyExecuting is true from before the session
\* open until the session close has ended.
C21_PassOrder ==
  [][\A c \in Callers :
       /\ pass'[c] # pass[c] => PassStep(pass[c].pc, pass'[c].pc)
       /\ (pass[c].pc = "idle" /\ pass'[c].pc = "login") => currentlyExecuting'
       /\ pass'[c].pc \in {"login", "exec", "logout"} => currentlyExecuting'
       /\ (pass'[c].pc = "logout" /\ pass[c].pc # "logout") =>
            LaterWithFn(pass[c].due, pass[c].idx) = {}
       /\ (currentlyExecuting /\ ~currentlyExecuting') =>
            \E d \in Callers : pass[d].pc = "logout" /\ pass'[d].pc = "idle"]_vars

\* C21 witness: the last executor of a pass of at least two tasks has failed
\* and the pass awaits the session close with currentlyExecuting still set.
C21_Witness ==
  /\ lastOp.op = "taskFailed"
  /\ currentlyExecuting
  /\ \E c \in Callers : /\ pass[c].pc = "logout"
                        /\ Len(pass[c].due) >= 2
                        /\ lastOp.id = pass[c].due[Len(pass[c].due)]

\* The callers whose pass awaits an executor.
InFlight(ps) == {c \in Callers : ps[c].pc = "exec"}

\* C22: executors never overlap.  At most one executor is in flight; a pass
\* starts the executor of the next due task, in the order of the list it
\* captured, in the turn in which the previous executor settled and its
\* outcome was recorded, and not before.
C22_ExecutorsInSequence ==
  [][/\ Cardinality(InFlight(pass')) <= 1
     /\ \A c \in Callers :
          (pass'[c].pc = "exec" /\ pass'[c] # pass[c]) =>
            /\ pass[c].pc \in {"login", "exec"}
            /\ pass'[c].due = pass[c].due
            /\ pass'[c].idx > pass[c].idx
            /\ \A j \in LaterWithFn(pass[c].due, pass[c].idx) : pass'[c].idx <= j
            /\ pass'[c].started = now
            /\ pass[c].pc = "exec" =>
                 /\ lastOp'.op \in {"taskCompleted", "taskFailed"}
                 /\ lastOp'.id = pass[c].due[pass[c].idx]
                 /\ lastOp'.op = "taskCompleted" =>
                      tasks'[lastOp'.id].lastRun = now]_vars

\* C22 witness: in a pass of three tasks the second executor has just
\* completed and the third is in flight, alone.
C22_Witness ==
  /\ lastOp.op = "taskCompleted"
  /\ InFlight(pass) # {}
  /\ \A c \in InFlight(pass) : /\ Len(pass[c].due) = 3
                               /\ pass[c].idx = 3
                               /\ lastOp.id = pass[c].due[2]

\* C23: there is no cancellation.  Disabling a task leaves a pass in progress
\* as it is; the loop starts the executor of the next task of the captured
\* list whether or not that task is still enabled, and an executor in flight
\* for a disabled task still completes and is recorded; a disabled task is
\* not listed as due and is in no list a later pass captures.
C23_DisabledMidPass ==
  [][/\ (\E t \in TaskIds : tasks[t].enabled /\ ~tasks'[t].enabled) => pass' = pass
     /\ \A c \in Callers :
          /\ (pass[c].pc \in {"login", "exec"} /\ pass'[c] # pass[c]
              /\ LaterWithFn(pass[c].due, pass[c].idx) # {}) =>
               /\ pass'[c].pc = "exec"
               /\ pass'[c].idx \in LaterWithFn(pass[c].due, pass[c].idx)
               /\ \A j \in LaterWithFn(pass[c].due, pass[c].idx) : pass'[c].idx <= j
          /\ (pass[c].pc = "exec" /\ pass'[c] # pass[c]
              /\ lastOp'.op = "taskCompleted") =>
               tasks'[lastOp'.id].lastRun = now
          /\ (pass[c].pc = "idle" /\ pass'[c].pc = "login") =>
               \A i \in 1..Len(pass'[c].due) : tasks[pass'[c].due[i]].enabled
     /\ \A t \in TaskIds : ~tasks'[t].enabled => ~ListedWhenPolled(tasks', t, now')]_vars

\* C23 witness: farm was captured as due, has been disabled since, and its
\* executor has just completed in that pass; it is not listed as due.
C23_Witness ==
  /\ lastOp.op = "taskCompleted" /\ lastOp.id = "farm"
  /\ ~tasks["farm"].enabled
  /\ tasks["farm"].lastRun = now
  /\ \E c \in Callers : pass[c].pc \in {"exec", "logout"} /\ pass[c].due[1] = "farm"
  /\ ~ListedWhenPolled(tasks, "farm", now)

\* C24: when the config write fails during a mutating call, the mutation still
\* stands in memory and the failure is surfaced to the caller as a failure
\* result.  (Stated as claimed; saveConfig catches and logs the error and the
\* call returns true.)
C24_WriteFailureSurfaced ==
  [][(/\ lastOp'.op \in {"setTaskEnabled", "setTaskNextRun", "setTaskInterval"}
      /\ lastOp'.saved
      /\ ~writable) =>
       /\ tasks'[lastOp'.id].enabled = (IF lastOp'.op = "setTaskEnabled"
                                      THEN lastOp'.enabled
                                      ELSE tasks[lastOp'.id].enabled)
       /\ ~lastOp'.ret]_vars

\* The task descriptors a fresh process would construct after saveConfig.
Reloaded == constructTasks(saveConfig(Mem).file)

\* C25: saving the config from the task descriptors and constructing the
\* descriptors again from the saved document reproduces enabled, lastRun and
\* nextRun of every task and the balance interval in milliseconds.
C25_SaveReloadRoundTrip ==
  /\ \A t \in TaskIds : /\ Reloaded[t].enabled = tasks[t].enabled
                        /\ Reloaded[t].lastRun = tasks[t].lastRun
                        /\ Reloaded[t].nextRun = tasks[t].nextRun
  /\ Reloaded["balance"].interval = tasks["balance"].interval

\* C25 witness: the balance interval is a positive number of minutes, balance
\* has run in this process and is scheduled, and another task has no next run.
C25_Witness ==
  /\ tasks["balance"].interval = MaxMinutes * MsPerMinute
  /\ tasks["balance"].lastRun >= StartTime
  /\ tasks["balance"].nextRun = tasks["balance"].lastRun + tasks["balance"].interval
  /\ \E t \in TaskIds : tasks[t].nextRun = null
  /\ Reloaded = tasks

\* C26: registerTask on a known id succeeds and stores the executor given,
\* replacing the one registered before, so that the executor a pass invokes
\* for a task is the one registered last; the interval is overwritten with
\* minutes * 60000 only when minutes is given and the task is balance; no
\* task's enabled, lastRun or nextRun changes.
C26_RegisterTask ==
  [][/\ (lastOp'.op = "registerTask" /\ lastOp'.id \in TaskIds) =>
          LET id == lastOp'.id IN
          /\ lastOp'.ret
          /\ taskFunctions'[id] = lastOp'.fn
          /\ \A t \in TaskIds \ {id} : /\ taskFunctions'[t] = taskFunctions[t]
                                       /\ tasks'[t] = tasks[t]
          /\ tasks'[id].interval =
               IF lastOp'.minutes # null /\ id = "balance"
               THEN lastOp'.minutes * MsPerMinute
               ELSE tasks[id].interval
          /\ tasks'[id].enabled = tasks[id].enabled
          /\ tasks'[id].lastRun = tasks[id].lastRun
          /\ tasks'[id].nextRun = tasks[id].nextRun
     /\ lastOp'.op \notin {"registerTask", "initialize"} =>
          taskFunctions' = taskFunctions
     /\ \A c \in Callers :
          (pass'[c].pc = "exec" /\ pass'[c] # pass[c]) =>
            pass'[c].fn = taskFunctions'[pass'[c].due[pass'[c].idx]]]_vars

\* C26 witness: balance's executor was registered by the host, replaced by
\* one that rejects together with an interval of 0, and replaced again, with
\* no interval given, by one that resolves; a pass has invoked the last one
\* and the interval is still 0.
C26_Witness ==
  /\ calls = 2
  /\ taskFunctions["balance"] = QuietFn
  /\ tasks["balance"].interval = 0
  /\ lastOp.op = "login"
  /\ \E c \in Callers : /\ pass[c].pc = "exec"
                        /\ pass[c].due[pass[c].idx] = "balance"
                        /\ pass[c].fn = QuietFn

\* C27: a poll of the loop with the run gate closed starts no pass; no pass
\* is started by any caller while the scheduler is stopped, whatever the
\* gate; start and stop leave the gate as it is, and pause, resume and the
\* auto-resume leave the scheduler's flag as it is.
C27_TwoSwitches ==
  [][/\ (pass["loop"].pc = "idle" /\ pass'["loop"].pc # "idle") =>
          botRunning /\ isRunning
     /\ \A c \in Callers :
          (pass[c].pc = "idle" /\ pass'[c].pc # "idle") => isRunning
     /\ (lastOp'.op = "poll" /\ ~botRunning) =>
          /\ pass' = pass
          /\ currentlyExecuting' = currentlyExecuting
          /\ tasks' = tasks
     /\ lastOp'.op \in {"start", "stop"} => botRunning' = botRunning
     /\ lastOp'.op \in {"pause", "resume", "autoResume", "ready"} =>
          isRunning' = isRunning
     /\ botRunning' # botRunning => isRunning' = isRunning]_vars

\* C27 witness: the loop has polled while a pause kept the gate closed; the
\* scheduler was started, no pass was executing and a task was due, and no
\* pass was started.
C27_Witness ==
  /\ lastOp.op = "poll"
  /\ ~botRunning /\ pauseEndTime # null
  /\ isRunning /\ ~currentlyExecuting
  /\ getDueTasks # <<>>
  /\ \A c \in Callers : pass[c].pc = "idle"

\* C28: while the run gate is closed the polling loop's pass starts no
\* executor, also not for the due tasks that remain of a pass that was in
\* progress when the gate was closed.  (Stated as claimed; a pass in progress
\* never looks at the gate.)
C28_NoExecutorWhileGateClosed ==
  [][(pass'["loop"].pc = "exec" /\ pass'["loop"] # pass["loop"]) => botRunning]_vars

\* A pass is awaiting the executor of task t.
Invoked(t) == \E c \in Callers : pass[c].pc = "exec" /\ pass[c].due[pass[c].idx] = t

\* C29: with the loop polling and every executor terminating, a task that is
\* enabled with nextRun <= now and has an executor eventually has its executor
\* invoked, unless it is disabled or rescheduled first, the run gate is closed
\* or the scheduler is stopped.
C29_DueTaskEventuallyRuns ==
  \A t \in TaskIds :
    (DueByFields(t) /\ taskFunctions[t] # NoFn) ~>
      (Invoked(t) \/ ~DueByFields(t) \/ ~botRunning \/ ~isRunning)

\* C29 witness: train was due with farm and balance; the loop's pass has run
\* the two before it and has now invoked train's executor, the gate open and
\* the scheduler started, train still enabled and not rescheduled.
C29_Witness ==
  /\ pass["loop"].pc = "exec"
  /\ pass["loop"].due = <<"farm", "balance", "train">>
  /\ Invoked("train")
  /\ DueByFields("train")
  /\ botRunning /\ isRunning
  /\ tasks["farm"].lastRun >= StartTime /\ tasks["balance"].lastRun >= StartTime

\* A pass awaits an executor that never settles.
Hung == \E c \in Callers : pass[c].pc = "exec" /\ Hangs(pass[c].fn)

\* C30: a started pass whose executors all settle ends, with currentlyExecuting
\* false when it returns; once a pass awaits an executor that never settles,
\* currentlyExecuting stays true, getDueTasks stays empty and no pass starts.
C30_PassEndsUnlessHung ==
  /\ currentlyExecuting ~> (~currentlyExecuting \/ Hung)
  /\ [][/\ \A c \in Callers :
             (pass[c].pc # "idle" /\ pass'[c].pc = "idle") => ~currentlyExecuting'
        /\ Hung =>
             /\ Hung'
             /\ currentlyExecuting /\ currentlyExecuting'
             /\ getDueTasks = <<>>
             /\ \A c \in Callers : pass'[c].pc = "idle" <=> pass[c].pc = "idle"]_vars

\* C30 witness: the loop's pass awaits an executor that never settles; a
\* direct call of executeDueTasks has since returned false although the
\* scheduler is started and another task is due by its fields.
C30_Witness ==
  /\ pass["loop"].pc = "exec" /\ Hangs(pass["loop"].fn)
  /\ lastOp.op = "executeDueTasks" /\ ~lastOp.ret
  /\ isRunning /\ currentlyExecuting
  /\ \E t \in TaskIds : DueByFields(t) /\ ~Invoked(t)

\* The tasks in the list a pass captured.
Captured(p) == {p.due[k] : k \in 1..Len(p.due)}

\* C31: the list a pass works on is the one captured when it started.  It
\* lists no task twice and never changes during the pass; the loop only moves
\* forward in it, so each executor is invoked at most once and only for a
\* captured task; a task that becomes due during the pass is not invoked by
\* it and is listed as due once the pass has returned.
C31_DueSetFixedAtStart ==
  [][\A c \in Callers :
       /\ (pass[c].pc = "idle" /\ pass'[c].pc # "idle") =>
            /\ pass'[c].due = getDueTasks
            /\ \A i, j \in 1..Len(pass'[c].due) :
                 i # j => pass'[c].due[i] # pass'[c].due[j]
       /\ (pass[c].pc # "idle" /\ pass'[c].pc # "idle") =>
            /\ pass'[c].due = pass[c].due
            /\ pass'[c].idx >= pass[c].idx
            /\ pass'[c] # pass[c] => pass'[c].idx > pass[c].idx
       /\ pass'[c].pc = "exec" => pass'[c].due[pass'[c].idx] \in Captured(pass'[c])
       /\ (pass[c].pc = "logout" /\ pass'[c].pc = "idle" /\ isRunning') =>
            \A t \in TaskIds :
              (tasks'[t].enabled /\ tasks'[t].nextRun # null /\ tasks'[t].nextRun <= now')
                => ListedWhenPolled(tasks', t, now')]_vars

\* C31 witness: train was enabled while a pass that had captured other tasks
\* was in progress; the pass has run its last executor and awaits the session
\* close, and train, due by its fields, has not been run.
C31_Witness ==
  \E c \in Callers :
    /\ pass[c].pc = "logout"
    /\ "train" \notin Captured(pass[c])
    /\ Len(pass[c].due) >= 1
    /\ DueByFields("train") /\ tasks["train"].nextRun = now
    /\ tasks["train"].lastRun < StartTime
    /\ lastOp.op \in {"taskCompleted", "taskFailed"}

\* The positions of its list a pass leaves behind in one step without having
\* awaited an executor there.
Skipped(c) ==
  IF pass[c].pc \in {"login", "exec"} /\ pass'[c] # pass[c]
  THEN {k \in (pass[c].idx + 1)..(pass'[c].idx - 1) : k <= Len(pass[c].due)}
  ELSE {}

\* C32: a due task without a registered executor is passed over: the pass
\* goes on to the next due task that has one (or to the session close), the
\* task's descriptor and what the file holds for it are unchanged, and the
\* task, if still enabled, is still listed as due.
C32_UnregisteredIsNoOp ==
  [][\A c \in Callers :
       /\ \A k \in Skipped(c) :
            LET t == pass[c].due[k] IN
            /\ taskFunctions[t] = NoFn
            /\ tasks'[t] = tasks[t]
            /\ file'[t].lastRun = file[t].lastRun
            /\ file'[t].nextRun = file[t].nextRun
            /\ tasks'[t].enabled => ListedWhenPolled(tasks', t, now)
       /\ (pass[c].pc \in {"login", "exec"} /\ pass'[c] # pass[c]) =>
            LET later == LaterWithFn(pass[c].due, pass[c].idx) IN
            IF later = {}
            THEN pass'[c].pc = "logout"
            ELSE /\ pass'[c].pc = "exec"
                 /\ pass'[c].idx \in later
                 /\ \A j \in later : pass'[c].idx <= j]_vars

\* C32 witness: farm, balance and train were captured as due and only balance
\* has an executor; farm was passed over, balance has run, train was passed
\* over and the pass awaits the session close, farm and train still due with
\* the timestamps they had.
C32_Witness ==
  \E c \in Callers :
    /\ pass[c].pc = "logout"
    /\ pass[c].due = <<"farm", "balance", "train">>
    /\ taskFunctions["farm"] = NoFn /\ taskFunctions["train"] = NoFn
    /\ lastOp.op = "taskCompleted" /\ lastOp.id = "balance"
    /\ \A t \in {"farm", "train"} : /\ DueByFields(t)
                                    /\ tasks[t].lastRun = StaleTime
                                    /\ tasks[t].nextRun = StaleTime
                                    /\ file[t].lastRun = StaleTime

\* C33: a manual resume cancels the auto-resume that the pause before it left
\* pending, so that a later pause is not cut short at the earlier pause's end
\* time: after a resume no auto-resume timer is pending.  (Stated as claimed;
\* resume leaves the timer in place.)
C33_ResumeCancelsAutoResume ==
  [][(lastOp'.op = "resume" /\ lastOp'.ret) => timers' = <<>>]_vars

\* C34: when the timer of a restart fires, the task ends enabled with nextRun
\* equal to the time the timer fires, as after setTaskEnabled(false) followed
\* by setTaskEnabled(true) at that time, whatever the task's state before the
\* restart and whatever was called in between.  (Stated as claimed; the
\* delayed enable keeps a nextRun that is already set.)
C34_RestartReschedulesToNow ==
  [][lastOp'.op = "restartFired" =>
       LET id == lastOp'.id
           twoCalls == setTaskEnabled(setTaskEnabled(Mem, id, FALSE, now').mem,
                                      id, TRUE, now').mem
       IN /\ tasks'[id].enabled
          /\ tasks'[id].nextRun = now'
          /\ tasks'[id] = twoCalls.tasks[id]]_vars

\* The balance executor is in flight in some pass.
BalanceInFlight ==
  \E c \in Callers : pass[c].pc = "exec" /\ pass[c].due[pass[c].idx] = "balance"

\* setTaskNextRun('balance', m) has just returned true with the balance
\* executor in flight, and that executor now completes.
AdminThenCompletion ==
  /\ lastOp.op = "setTaskNextRun" /\ lastOp.id = "balance" /\ lastOp.ret
  /\ BalanceInFlight
  /\ lastOp'.op = "taskCompleted" /\ lastOp'.id = "balance"

\* C35 as claimed: a nextRun set by setTaskNextRun('balance', m) while the
\* balance executor is in flight is overwritten when the executor completes:
\* balance's nextRun is then the completion time + interval.  (Fails when the
\* interval is 0.)
C35_Original ==
  [][AdminThenCompletion =>
       tasks'["balance"].nextRun = now' + tasks'["balance"].interval]_vars

\* C35 amended: the value set by setTaskNextRun('balance', m) while the balance
\* executor is in flight is overwritten at completion with completion time +
\* interval when the interval is positive; with interval 0 the pass does not
\* write nextRun and the value set by the administrator stays.
C35_PassOverwritesAdminNextRun ==
  [][AdminThenCompletion =>
       tasks'["balance"].nextRun =
         IF tasks["balance"].interval > 0
         THEN now' + tasks["balance"].interval
         ELSE now + lastOp.minutes * MsPerMinute]_vars

\* C35 witness: with a positive interval and balance's executor in flight, the
\* administrator has set balance's nextRun to a value other than the one the
\* completion will write.
C35_Witness ==
  /\ lastOp.op = "setTaskNextRun" /\ lastOp.id = "balance" /\ lastOp.ret
  /\ BalanceInFlight
  /\ tasks["balance"].interval > 0
  /\ tasks["balance"].nextRun = now

\* C36: a task's lastRun changes only when that task's executor completes
\* successfully inside a pass; setTaskEnabled, setTaskNextRun, setTaskInterval,
\* registerTask, start, stop, pause, resume and every other step leave every
\* lastRun unchanged; and no lastRun ever decreases (null being lower than
\* every time).
C36_LastRunFrame ==
  [][\A t \in TaskIds :
       /\ tasks'[t].lastRun # tasks[t].lastRun =>
            lastOp'.op = "taskCompleted" /\ lastOp'.id = t
       /\ tasks'[t].lastRun >= tasks[t].lastRun]_vars

\* C36 witness: balance completed in a pass at the current time, and a control
\* operation that succeeded after it left that lastRun in place.
C36_Witness ==
  /\ lastOp.op \in {"setTaskEnabled", "setTaskNextRun", "setTaskInterval",
                    "registerTask", "start", "stop", "pause", "resume"}
  /\ lastOp.ret
  /\ tasks["balance"].lastRun = now

\* The due list a pass captured holds the task.
CapturedTask(c, t) == \E i \in 1..Len(pass[c].due) : pass[c].due[i] = t

\* C37: while the balance interval is 0, a successful balance execution sets
\* lastRun to the completion time and leaves nextRun at its old value, so that
\* balance, if it was due by its fields, is still due after it; and every pass
\* that starts while balance is in that condition captures balance again.
C37_ZeroIntervalStaysDue ==
  [][/\ (/\ lastOp'.op = "taskCompleted" /\ lastOp'.id = "balance"
         /\ tasks["balance"].interval = 0) =>
          /\ tasks'["balance"].lastRun = now'
          /\ tasks'["balance"].nextRun = tasks["balance"].nextRun
          /\ DueByFields("balance") => DueByFields("balance")'
     /\ \A c \in Callers :
          (/\ pass[c].pc = "idle" /\ pass'[c].pc = "login"
           /\ tasks["balance"].interval = 0
           /\ DueByFields("balance")) => CapturedTask(c, "balance")']_vars

\* C37 witness: with interval 0, balance has completed at the current time
\* with a nextRun that stayed in the past, and a new pass started at that same
\* time has captured it again.
C37_Witness ==
  /\ lastOp.op = "passStarted"
  /\ tasks["balance"].interval = 0
  /\ tasks["balance"].lastRun = now
  /\ tasks["balance"].nextRun <= now
  /\ CapturedTask("loop", "balance")

\* C38: the pause command dispatched through its execute with no argument or
\* with a number of minutes, and not turned away by the paused test of the
\* Discord entry, closes the run gate and schedules the auto-resume for the
\* end of the pause; the resume command dispatched through its execute while
\* the gate is closed reopens it.  (Stated as claimed; processCommand shows
\* the help for both.)
C38_DispatchReachesHandlers ==
  [][/\ (/\ lastOp'.op = "pause.execute"
         /\ ~Blocked(lastOp'.id, botRunning, "pause")
         /\ (Len(lastOp'.args) = 0 \/ ~isNaN(lastOp'.args[1]))) =>
          LET pauseMinutes == IF Len(lastOp'.args) = 0
                              THEN DefaultPauseMinutes
                              ELSE parseInt(lastOp'.args[1])
              endTime == now + pauseMinutes * MsPerMinute
          IN /\ ~botRunning'
             /\ pauseEndTime' = endTime
             /\ timers' = Append(timers, endTime)
     /\ (/\ lastOp'.op = "resume.execute"
         /\ Len(lastOp'.args) = 0
         /\ ~botRunning) =>
          /\ botRunning'
          /\ pauseEndTime' = null]_vars

====
